---- MODULE Spec2Model ----
(***************************************************************************)
(* kuma-map: the paginated fetch of the sighting table (app/page.tsx) and  *)
(* the filter / location-detection state of SightingsView.                 *)
(*                                                                         *)
(* Two specifications share the module:                                    *)
(*   SpecFetch  one run of getSightings against a store of N rows          *)
(*   SpecView   the SightingsView component: user handlers, the mount      *)
(*              effect and the callbacks of in-flight detections           *)
(* Region and prefecture names are romanised (the parser takes ASCII       *)
(* strings only); their order is the order of the REGIONS literal.         *)
(***************************************************************************)
EXTENDS Integers, Sequences, FiniteSets, TLC

VARIABLES
    \* ---- getSightings (src/app/page.tsx) ----
    store,        \* the rows of bear_sightings, in ORDER BY date DESC order
    allData,      \* accumulator
    page,         \* page counter
    hasMore,      \* loop flag
    pc,           \* "loop" | "await" | "return" | "done"
    requests,     \* history of the ranges issued, <<from, to>> each
    errorAt,      \* index (from 1) of the request that reported an error, 0 if none
    result,       \* the array returned by getSightings
    \* ---- SightingsView (src/components/SightingsView.tsx) ----
    sightings,
    selectedRegion,
    selectedPrefecture,
    showAllPeriod,
    isLocating,
    locationError,
    detectedPrefecture,
    geolocation,  \* navigator.geolocation is present
    mounted,      \* the mount effect has run
    detections,   \* every detectLocation call so far, in issue order
    last,         \* the handler that ran last and the visible state before it
    now,          \* the clock read by getSixMonthsAgo at the first render
    sixMonthsAgo  \* useMemo(() => getSixMonthsAgo(), [])

fvars == <<store, allData, page, hasMore, pc, requests, errorAt, result>>
vvars == <<sightings, selectedRegion, selectedPrefecture, showAllPeriod, isLocating,
           locationError, detectedPrefecture, geolocation, mounted, detections, last>>
cvars == <<now, sixMonthsAgo>>
vars == <<fvars, vvars, cvars>>

NULL == "null"

Min(a, b) == IF a < b THEN a ELSE b

(***************************************************************************)
(* Dates.  A clock reading is [year, month, date, hours, tz]: the local     *)
(* calendar fields as Date reports them (month 0..11) and the zone's       *)
(* offset from UTC in hours.  A time value is a number of hours since the  *)
(* epoch, UTC.  A record's date string 'YYYY-MM-DD' is <<y, m, d>>, m from  *)
(* 1.                                                                      *)
(***************************************************************************)
Clock(y, m, d, h, tz) == [year |-> y, month |-> m, date |-> d, hours |-> h, tz |-> tz]

IsLeapYear(y) == (y % 4 = 0 /\ y % 100 # 0) \/ y % 400 = 0

\* days in month m (0..11) of year y
DaysInMonth(y, m) ==
    IF m = 1 THEN (IF IsLeapYear(y) THEN 29 ELSE 28)
    ELSE IF m \in {3, 5, 8, 10} THEN 30 ELSE 31

\* day number of 1 January of year y
DayFromYear(y) ==
    365 * (y - 1970) + ((y - 1969) \div 4) - ((y - 1901) \div 100) + ((y - 1601) \div 400)

\* days of year y before month m (0..11)
RECURSIVE DaysBeforeMonth(_, _)
DaysBeforeMonth(y, m) ==
    IF m = 0 THEN 0 ELSE DaysBeforeMonth(y, m - 1) + DaysInMonth(y, m - 1)

\* MakeDay of the Date algorithms: the month may lie outside 0..11 and the
\* date outside the month; both carry over
MakeDay(year, month, date) ==
    LET ym == year + (month \div 12)
        mn == month % 12
    IN  DayFromYear(ym) + DaysBeforeMonth(ym, mn) + date - 1

HoursPerDay == 24

\* new Date('YYYY-MM-DD'): midnight UTC of that day
DateParse(str) == MakeDay(str[1], str[2] - 1, str[3]) * HoursPerDay

\* the time value of a local clock reading
TimeValue(day, hours, tz) == day * HoursPerDay + hours - tz

\* date = new Date(); date.setMonth(date.getMonth() - 6); return date
getSixMonthsAgo(clock) ==
    TimeValue(MakeDay(clock.year, clock.month - 6, clock.date), clock.hours, clock.tz)

\* the 'YYYY-MM-DD' string of a day number
DateString(day) ==
    LET y == CHOOSE yy \in 1970..2100 : DayFromYear(yy) <= day /\ day < DayFromYear(yy + 1)
        m == CHOOSE mm \in 0..11 :
                 /\ DaysBeforeMonth(y, mm) <= day - DayFromYear(y)
                 /\ day - DayFromYear(y) < DaysBeforeMonth(y, mm) + DaysInMonth(y, mm)
    IN  <<y, m + 1, day - DayFromYear(y) - DaysBeforeMonth(y, m) + 1>>

\* the clock of the sessions in which the period filter is not exercised:
\* 10:00 on 15 October 2025, Japan
DefaultNow == Clock(2025, 9, 15, 10, 9)

(***************************************************************************)
(* Bounds                                                                  *)
(***************************************************************************)
\* stores hold up to MaxFullPages full pages plus a remainder
MaxFullPages == 3

(***************************************************************************)
(* getSightings                                                            *)
(***************************************************************************)
pageSize == 1000

\* the remainders tried after the full pages: none, one row, the 17 of the
\* completeness test, one row short of a page
Remainders == {0, 1, 17, pageSize - 1}

StoreSizes == {k * pageSize + d : k \in 0..MaxFullPages, d \in Remainders}

\* row i of a store of n rows; dates descend, two rows share each date
StoreRow(i, n) ==
    [id |-> i, date |-> (n - i) \div 2, prefecture |-> "Akita", city |-> "c",
     location |-> "l", lat |-> 39, lng |-> 140, source |-> "", summary |-> "s",
     created_at |-> n - i]

Stores == {[i \in 1..n |-> StoreRow(i, n)] : n \in StoreSizes}

\* .range(from, to): the rows at offsets from..to, both inclusive, clamped
StoreRange(s, from, to) == SubSeq(s, from + 1, Min(to + 1, Len(s)))

RangeFrom_gap(p) == p * pageSize + p

RangeFrom(p) == p * pageSize

RangeTo_inclusiveSlip(p) == RangeFrom(p) + pageSize

RangeTo(p) == RangeFrom(p) + pageSize - 1

\* snake case row to camel case record
ToSighting(row) ==
    [id |-> row.id, date |-> row.date, prefecture |-> row.prefecture,
     city |-> row.city, location |-> row.location, lat |-> row.lat,
     lng |-> row.lng, source |-> row.source, summary |-> row.summary,
     createdAt |-> row.created_at]

MapRows(rows) == [i \in 1..Len(rows) |-> ToSighting(rows[i])]

ViewIdle ==
    /\ sightings = <<>>
    /\ selectedRegion = "all"
    /\ selectedPrefecture = "all"
    /\ showAllPeriod = FALSE
    /\ isLocating = FALSE
    /\ locationError = NULL
    /\ detectedPrefecture = NULL
    /\ geolocation = TRUE
    /\ mounted = FALSE
    /\ detections = <<>>
    /\ last = [op |-> "none", id |-> 0, arg |-> NULL]
    /\ now = DefaultNow
    /\ sixMonthsAgo = getSixMonthsAgo(DefaultNow)

InitFetch ==
    /\ store \in Stores
    /\ allData = <<>>
    /\ page = 0
    /\ hasMore = TRUE
    /\ pc = "loop"
    /\ requests = <<>>
    /\ errorAt = 0
    /\ result = <<>>
    /\ ViewIdle

\* while (hasMore) { from, to; await supabase ... .range(from, to)
IssueRequest ==
    /\ pc = "loop"
    /\ hasMore
    /\ requests' = Append(requests, <<RangeFrom(page), RangeTo(page)>>)
    /\ pc' = "await"
    /\ UNCHANGED <<store, allData, page, hasMore, errorAt, result>>
    /\ UNCHANGED <<vvars, cvars>>

\* while (hasMore) is false: fall out of the loop
LoopExit ==
    /\ pc = "loop"
    /\ ~hasMore
    /\ pc' = "return"
    /\ UNCHANGED <<store, allData, page, hasMore, requests, errorAt, result>>
    /\ UNCHANGED <<vvars, cvars>>

ReceiveError_dropAccumulated ==
    /\ pc = "await"
    /\ errorAt' = Len(requests)
    /\ allData' = <<>>
    /\ pc' = "return"
    /\ UNCHANGED <<store, page, hasMore, requests, result>>
    /\ UNCHANGED <<vvars, cvars>>

\* the request settles with { error }: log and break
ReceiveError ==
    /\ pc = "await"
    /\ errorAt' = Len(requests)
    /\ pc' = "return"
    /\ UNCHANGED <<store, allData, page, hasMore, requests, result>>
    /\ UNCHANGED <<vvars, cvars>>

ReceivePage_untilEmpty ==
    /\ pc = "await"
    /\ LET r == requests[Len(requests)]
           data == StoreRange(store, r[1], r[2])
       IN  IF data # NULL /\ Len(data) > 0
           THEN /\ allData' = allData \o data
                /\ hasMore' = (Len(data) > 0)
                /\ page' = page + 1
           ELSE /\ hasMore' = FALSE
                /\ UNCHANGED <<allData, page>>
    /\ pc' = "loop"
    /\ UNCHANGED <<store, requests, errorAt, result>>
    /\ UNCHANGED <<vvars, cvars>>

\* the request settles with { data }: accumulate, or stop on an empty page
ReceivePage ==
    /\ pc = "await"
    /\ LET r == requests[Len(requests)]
           data == StoreRange(store, r[1], r[2])
       IN  IF data # NULL /\ Len(data) > 0
           THEN /\ allData' = allData \o data
                /\ hasMore' = (Len(data) = pageSize)
                /\ page' = page + 1
           ELSE /\ hasMore' = FALSE
                /\ UNCHANGED <<allData, page>>
    /\ pc' = "loop"
    /\ UNCHANGED <<store, requests, errorAt, result>>
    /\ UNCHANGED <<vvars, cvars>>

\* return allData.map(row => ({ ... }))
Return ==
    /\ pc = "return"
    /\ result' = MapRows(allData)
    /\ pc' = "done"
    /\ UNCHANGED <<store, allData, page, hasMore, requests, errorAt>>
    /\ UNCHANGED <<vvars, cvars>>

NextFetch ==
    \/ IssueRequest
    \/ LoopExit
    \/ ReceiveError
    \/ ReceivePage
    \/ Return

SpecFetch == InitFetch /\ [][NextFetch]_vars

\* every awaited request settles and the function runs on while it can
SpecFetchFair == SpecFetch /\ WF_vars(NextFetch)

(***************************************************************************)
(* SightingsView: taxonomy                                                 *)
(***************************************************************************)
\* Object.keys(REGIONS), in the order of the literal
RegionNames ==
    <<"Hokkaido", "Tohoku", "Kanto", "Chubu", "Kansai", "Chugoku", "Shikoku",
      "KyushuOkinawa">>

REGIONS ==
    [r \in {RegionNames[i] : i \in 1..Len(RegionNames)} |->
        CASE r = "Hokkaido" -> <<"Hokkaido">>
          [] r = "Tohoku" -> <<"Aomori", "Iwate", "Miyagi", "Akita", "Yamagata", "Fukushima">>
          [] r = "Kanto" -> <<"Ibaraki", "Tochigi", "Gunma", "Saitama", "Chiba", "Tokyo",
                              "Kanagawa">>
          [] r = "Chubu" -> <<"Niigata", "Toyama", "Ishikawa", "Fukui", "Yamanashi", "Nagano",
                              "Gifu", "Shizuoka", "Aichi">>
          [] r = "Kansai" -> <<"Mie", "Shiga", "Kyoto", "Osaka", "Hyogo", "Nara", "Wakayama">>
          [] r = "Chugoku" -> <<"Tottori", "Shimane", "Okayama", "Hiroshima", "Yamaguchi">>
          [] r = "Shikoku" -> <<"Tokushima", "Kagawa", "Ehime", "Kochi">>
          [] r = "KyushuOkinawa" -> <<"Fukuoka", "Saga", "Nagasaki", "Kumamoto", "Oita",
                                      "Miyazaki", "Kagoshima", "Okinawa">>]

\* Array.prototype.includes
Includes(seq, x) == \E i \in 1..Len(seq) : seq[i] = x

\* REGIONS[selectedRegion] || []
RegionPrefs(region) == IF region \in DOMAIN REGIONS THEN REGIONS[region] ELSE <<>>

getRegionFromPrefecture_lastRegion(prefecture) ==
    IF \E i \in 1..Len(RegionNames) : Includes(REGIONS[RegionNames[i]], prefecture)
    THEN RegionNames[Len(RegionNames)]
    ELSE NULL

\* the first region, in key order, whose list includes the prefecture
getRegionFromPrefecture(prefecture) ==
    IF \E i \in 1..Len(RegionNames) : Includes(REGIONS[RegionNames[i]], prefecture)
    THEN LET k == CHOOSE i \in 1..Len(RegionNames) :
                      /\ Includes(REGIONS[RegionNames[i]], prefecture)
                      /\ \A j \in 1..(i - 1) : ~Includes(REGIONS[RegionNames[j]], prefecture)
         IN  RegionNames[k]
    ELSE NULL

(***************************************************************************)
(* SightingsView: reverse geocoder                                         *)
(***************************************************************************)
\* the code -> name table of getPrefectureFromCoords, '01' .. '47'
PrefectureTable ==
    <<"Hokkaido", "Aomori", "Iwate", "Miyagi",
      "Akita", "Yamagata", "Fukushima", "Ibaraki",
      "Tochigi", "Gunma", "Saitama", "Chiba",
      "Tokyo", "Kanagawa", "Niigata", "Toyama",
      "Ishikawa", "Fukui", "Yamanashi", "Nagano",
      "Gifu", "Shizuoka", "Aichi", "Mie",
      "Shiga", "Kyoto", "Osaka", "Hyogo",
      "Nara", "Wakayama", "Tottori", "Shimane",
      "Okayama", "Hiroshima", "Yamaguchi", "Tokushima",
      "Kagawa", "Ehime", "Kochi", "Fukuoka",
      "Saga", "Nagasaki", "Kumamoto", "Oita",
      "Miyazaki", "Kagoshima", "Okinawa">>

Digit == <<"0", "1", "2", "3", "4", "5", "6", "7", "8", "9">>

\* the two-character key of entry n
CodeKey(n) == <<Digit[(n \div 10) + 1], Digit[(n % 10) + 1]>>

prefectures_table == [c \in {CodeKey(n) : n \in 1..Len(PrefectureTable)} |->
                         PrefectureTable[CHOOSE n \in 1..Len(PrefectureTable) : CodeKey(n) = c]]

\* String.prototype.substring(0, 2)
Substring02(str) == SubSeq(str, 1, Min(2, Len(str)))

\* A settled geocoder request: the fetch or json() threw, or a JSON value with
\* or without results and with results.mupicode a string (empty when absent).
GeocodeResponse(thrown, hasResults, mupicode) ==
    [thrown |-> thrown, hasResults |-> hasResults, mupicode |-> mupicode]

getPrefectureFromCoords_fallbackFirst(response) ==
    IF response.thrown
    THEN NULL
    ELSE IF response.hasResults /\ response.mupicode # <<>>
         THEN LET prefCode == Substring02(response.mupicode)
              IN  IF prefCode \in DOMAIN prefectures_table
                  THEN prefectures_table[prefCode]
                  ELSE PrefectureTable[1]
         ELSE NULL

getPrefectureFromCoords(response) ==
    IF response.thrown
    THEN NULL
    ELSE IF response.hasResults /\ response.mupicode # <<>>
         THEN LET prefCode == Substring02(response.mupicode)
              IN  IF prefCode \in DOMAIN prefectures_table
                  THEN prefectures_table[prefCode]
                  ELSE NULL
         ELSE NULL

(***************************************************************************)
(* SightingsView: inputs                                                   *)
(***************************************************************************)
\* at most MaxDetections calls of detectLocation in one session
MaxDetections == 2

\* prefectures the sample collections use: two regions and a name outside the
\* taxonomy
SamplePrefectures == {"Akita", "Tokyo", "Karafuto"}

\* record i of a collection of n, dates descending
Sighting(i, n, p) == [id |-> i, date |-> n - i, prefecture |-> p]

MakeCollection(prefs) == [i \in 1..Len(prefs) |-> Sighting(i, Len(prefs), prefs[i])]

\* the collections the view is mounted with
Collections ==
    {MakeCollection(<<>>),
     MakeCollection(<<"Akita">>),
     MakeCollection(<<"Tokyo", "Akita">>),
     MakeCollection(<<"Akita", "Tokyo", "Akita">>),
     MakeCollection(<<"Karafuto", "Akita">>)}

\* mupicode values the geocoder is tried with: Akita, Naha, a code outside
\* the table, a one-character string
SampleMupicodes ==
    {<<"0", "5", "2", "0", "1">>, <<"4", "7", "2", "0", "1">>,
     <<"9", "9", "0", "0", "0">>, <<"4">>}

GeocodeResponses ==
    {GeocodeResponse(TRUE, FALSE, <<>>),     \* fetch or json() threw
     GeocodeResponse(FALSE, FALSE, <<>>),    \* no results field
     GeocodeResponse(FALSE, TRUE, <<>>)}     \* results without mupicode
    \cup {GeocodeResponse(FALSE, TRUE, m) : m \in SampleMupicodes}

\* GeolocationPositionError codes; 0 stands for any code other than 1, 2, 3
PERMISSION_DENIED == 1
POSITION_UNAVAILABLE == 2
TIMEOUT == 3
PositionErrorCodes == {0, PERMISSION_DENIED, POSITION_UNAVAILABLE, TIMEOUT}

\* the messages of setLocationError
ErrUnsupported == "geolocation not supported"
ErrDenied == "geolocation not permitted"
ErrUnavailable == "position unavailable"
ErrTimeout == "position timed out"
ErrUnknown == "position failed"
ErrUnresolved == "prefecture not resolved"

(***************************************************************************)
(* SightingsView: derived values                                           *)
(***************************************************************************)
\* sightings.some(s => s.prefecture === pref)
HasSighting(coll, pref) == \E i \in 1..Len(coll) : coll[i].prefecture = pref

\* number of records satisfying a predicate given as a set of indices
CountOf(coll, pref) == Cardinality({i \in 1..Len(coll) : coll[i].prefecture = pref})

regionCounts_unknownToFirst(coll) ==
    [r \in DOMAIN REGIONS |->
        Cardinality({i \in 1..Len(coll) :
            \/ Includes(REGIONS[r], coll[i].prefecture)
            \/ r = RegionNames[1] /\ getRegionFromPrefecture(coll[i].prefecture) = NULL})]

regionCounts(coll) ==
    [r \in DOMAIN REGIONS |->
        Cardinality({i \in 1..Len(coll) : Includes(REGIONS[r], coll[i].prefecture)})]

prefectureCounts_allCanonical(coll) ==
    [p \in {coll[i].prefecture : i \in 1..Len(coll)}
            \cup {PrefectureTable[i] : i \in 1..Len(PrefectureTable)} |-> CountOf(coll, p)]

\* counts keyed by the prefectures that occur in the collection
prefectureCounts(coll) ==
    [p \in {coll[i].prefecture : i \in 1..Len(coll)} |-> CountOf(coll, p)]

\* Object.entries(prefectureCounts): keys in insertion (first occurrence) order
RECURSIVE PrefectureKeys(_)
PrefectureKeys(coll) ==
    IF coll = <<>>
    THEN <<>>
    ELSE LET front == PrefectureKeys(SubSeq(coll, 1, Len(coll) - 1))
             p == coll[Len(coll)].prefecture
         IN  IF Includes(front, p) THEN front ELSE Append(front, p)

\* seq.filter(x => allowed.includes(x))
FilterIncluded(seq, allowed) ==
    LET F[i \in 0..Len(seq)] ==
            IF i = 0 THEN <<>>
            ELSE IF Includes(allowed, seq[i]) THEN Append(F[i - 1], seq[i]) ELSE F[i - 1]
    IN  F[Len(seq)]

\* prefs.sort((a, b) => b[1] - a[1]): stable, larger counts first
RECURSIVE SortByCount(_, _)
SortByCount(keys, counts) ==
    IF keys = <<>>
    THEN <<>>
    ELSE LET k == CHOOSE i \in 1..Len(keys) :
                      /\ \A j \in 1..Len(keys) : counts[keys[j]] <= counts[keys[i]]
                      /\ \A j \in 1..(i - 1) : counts[keys[j]] < counts[keys[i]]
         IN  <<keys[k]>> \o
             SortByCount(SubSeq(keys, 1, k - 1) \o SubSeq(keys, k + 1, Len(keys)), counts)

\* the prefecture list offered by the Select
prefectures(coll, region) ==
    LET keys == PrefectureKeys(coll)
        prefs == IF region # "all" THEN FilterIncluded(keys, RegionPrefs(region)) ELSE keys
    IN  SortByCount(prefs, prefectureCounts(coll))

\* sightings.filter(s => new Date(s.date) >= sixMonthsAgo) and the two
\* filters after it, in the order of the memo
filteredSightings_regionSkipped ==
    LET period == IF ~showAllPeriod
                  THEN SelectSeq(sightings, LAMBDA s : DateParse(s.date) >= sixMonthsAgo)
                  ELSE sightings
    IN  IF selectedPrefecture # "all"
        THEN SelectSeq(period, LAMBDA s : s.prefecture = selectedPrefecture)
        ELSE period

filteredSightings ==
    LET period == IF ~showAllPeriod
                  THEN SelectSeq(sightings, LAMBDA s : DateParse(s.date) >= sixMonthsAgo)
                  ELSE sightings
        region == IF selectedRegion # "all"
                  THEN SelectSeq(period,
                                 LAMBDA s : Includes(RegionPrefs(selectedRegion), s.prefecture))
                  ELSE period
    IN  IF selectedPrefecture # "all"
        THEN SelectSeq(region, LAMBDA s : s.prefecture = selectedPrefecture)
        ELSE region

\* filteredSightings.slice(0, 10)
RecentCount == 10

recentSightings_sliceFromOne == SubSeq(filteredSightings, 2, Min(RecentCount + 1, Len(filteredSightings)))

recentSightings == SubSeq(filteredSightings, 1, Min(RecentCount, Len(filteredSightings)))

regionButtons_hideEmpty ==
    LET withData == SelectSeq(RegionNames, LAMBDA r : regionCounts(sightings)[r] # 0)
    IN  [i \in 1..Len(withData) |-> [region |-> withData[i], count |-> regionCounts(sightings)[withData[i]],
                                     disabled |-> FALSE]]

\* Object.keys(REGIONS).map(region => <Button disabled={regionCounts[region] === 0}>)
regionButtons ==
    [i \in 1..Len(RegionNames) |->
        [region |-> RegionNames[i], count |-> regionCounts(sightings)[RegionNames[i]],
         disabled |-> regionCounts(sightings)[RegionNames[i]] = 0]]

(***************************************************************************)
(* SightingsView: state and handlers                                       *)
(***************************************************************************)
\* what the component shows, as a record
Visible ==
    [region |-> selectedRegion, prefecture |-> selectedPrefecture,
     allPeriod |-> showAllPeriod, detected |-> detectedPrefecture,
     error |-> locationError]

\* the handler that ran, the detection it belongs to (0 if none), its argument
\* and the visible state it started from
Ran(op, id, arg) == [op |-> op, id |-> id, arg |-> arg, pre |-> Visible]

Detection(phase, outcome, pref) == [phase |-> phase, outcome |-> outcome, pref |-> pref]

InitView ==
    /\ sightings \in Collections
    /\ geolocation \in BOOLEAN
    /\ selectedRegion = "all"
    /\ selectedPrefecture = "all"
    /\ showAllPeriod = FALSE
    /\ isLocating = FALSE
    /\ locationError = NULL
    /\ detectedPrefecture = NULL
    /\ mounted = FALSE
    /\ detections = <<>>
    /\ last = [op |-> "none", id |-> 0, arg |-> NULL, pre |-> Visible]
    /\ now = DefaultNow
    /\ sixMonthsAgo = getSixMonthsAgo(now)
    /\ store = <<>>
    /\ allData = <<>>
    /\ page = 0
    /\ hasMore = FALSE
    /\ pc = "done"
    /\ requests = <<>>
    /\ errorAt = 0
    /\ result = <<>>

handleRegionChange_keepPrefecture(region) ==
    /\ mounted
    /\ region = "all" \/ (region \in DOMAIN REGIONS /\ regionCounts(sightings)[region] # 0)
    /\ selectedRegion' = region
    /\ last' = Ran("handleRegionChange", 0, region)
    /\ UNCHANGED <<sightings, selectedPrefecture, showAllPeriod, isLocating, locationError,
                   detectedPrefecture, geolocation, mounted, detections>>
    /\ UNCHANGED <<fvars, cvars>>

\* a region button; the button of a region without sightings is disabled
handleRegionChange(region) ==
    /\ mounted
    /\ region = "all" \/ (region \in DOMAIN REGIONS /\ regionCounts(sightings)[region] # 0)
    /\ selectedRegion' = region
    /\ selectedPrefecture' = "all"
    /\ last' = Ran("handleRegionChange", 0, region)
    /\ UNCHANGED <<sightings, showAllPeriod, isLocating, locationError,
                   detectedPrefecture, geolocation, mounted, detections>>
    /\ UNCHANGED <<fvars, cvars>>

\* <Select onValueChange={setSelectedPrefecture}>: 'all' or an offered item
setSelectedPrefecture(pref) ==
    /\ mounted
    /\ pref = "all" \/ Includes(prefectures(sightings, selectedRegion), pref)
    /\ selectedPrefecture' = pref
    /\ last' = Ran("setSelectedPrefecture", 0, pref)
    /\ UNCHANGED <<sightings, selectedRegion, showAllPeriod, isLocating, locationError,
                   detectedPrefecture, geolocation, mounted, detections>>
    /\ UNCHANGED <<fvars, cvars>>

\* the period button: setShowAllPeriod(!showAllPeriod)
togglePeriod ==
    /\ mounted
    /\ showAllPeriod' = ~showAllPeriod
    /\ last' = Ran("togglePeriod", 0, NULL)
    /\ UNCHANGED <<sightings, selectedRegion, selectedPrefecture, isLocating, locationError,
                   detectedPrefecture, geolocation, mounted, detections>>
    /\ UNCHANGED <<fvars, cvars>>

\* the synchronous part of detectLocation, up to getCurrentPosition(...)
detectLocation(op) ==
    /\ Len(detections) < MaxDetections
    /\ IF ~geolocation
       THEN /\ locationError' = ErrUnsupported
            /\ detections' = Append(detections, Detection("done", "unsupported", NULL))
            /\ UNCHANGED isLocating
       ELSE /\ isLocating' = TRUE
            /\ locationError' = NULL
            /\ detections' = Append(detections, Detection("position", "pending", NULL))
    /\ last' = Ran(op, Len(detections) + 1, NULL)
    /\ UNCHANGED <<sightings, selectedRegion, selectedPrefecture, showAllPeriod,
                   detectedPrefecture, geolocation>>
    /\ UNCHANGED <<fvars, cvars>>

\* useEffect(() => { detectLocation() }, [detectLocation]), first run
mountEffect ==
    /\ ~mounted
    /\ mounted' = TRUE
    /\ detectLocation("mountEffect")

\* the same effect when detectLocation is re-created: useCallback depends on
\* [sightings], and a revalidated page hands the view a new array
rerunEffect ==
    /\ mounted
    /\ UNCHANGED mounted
    /\ detectLocation("rerunEffect")

\* the detect button, disabled while isLocating
clickDetect ==
    /\ mounted
    /\ ~isLocating
    /\ UNCHANGED mounted
    /\ detectLocation("clickDetect")

\* success callback, first half: the position arrives and the geocoder
\* request is sent
positionSuccess(d) ==
    /\ d \in 1..Len(detections)
    /\ detections[d].phase = "position"
    /\ detections' = [detections EXCEPT ![d].phase = "geocode"]
    /\ last' = Ran("positionSuccess", d, NULL)
    /\ UNCHANGED <<sightings, selectedRegion, selectedPrefecture, showAllPeriod, isLocating,
                   locationError, detectedPrefecture, geolocation, mounted>>
    /\ UNCHANGED <<fvars, cvars>>

\* success callback, second half: the geocoder request settles
geocodeSettled(d, response) ==
    /\ d \in 1..Len(detections)
    /\ detections[d].phase = "geocode"
    /\ LET pref == getPrefectureFromCoords(response)
           region == getRegionFromPrefecture(pref)
       IN  IF pref # NULL
           THEN /\ detectedPrefecture' = pref
                /\ IF HasSighting(sightings, pref)
                   THEN /\ selectedRegion' = IF region # NULL THEN region ELSE selectedRegion
                        /\ selectedPrefecture' = pref
                        /\ detections' = [detections EXCEPT
                                             ![d] = Detection("done", "resolved", pref)]
                   ELSE /\ selectedRegion' = IF region # NULL THEN region ELSE selectedRegion
                        /\ UNCHANGED selectedPrefecture
                        /\ detections' = [detections EXCEPT
                                             ![d] = Detection("done", "nodata", pref)]
                /\ UNCHANGED locationError
           ELSE /\ locationError' = ErrUnresolved
                /\ detections' = [detections EXCEPT
                                     ![d] = Detection("done", "unresolved", NULL)]
                /\ UNCHANGED <<detectedPrefecture, selectedRegion, selectedPrefecture>>
    /\ isLocating' = FALSE
    /\ last' = Ran("geocodeSettled", d, response)
    /\ UNCHANGED <<sightings, showAllPeriod, geolocation, mounted>>
    /\ UNCHANGED <<fvars, cvars>>

\* the message chosen by the switch on error.code
PositionErrorMessage(code) ==
    CASE code = PERMISSION_DENIED -> ErrDenied
      [] code = POSITION_UNAVAILABLE -> ErrUnavailable
      [] code = TIMEOUT -> ErrTimeout
      [] OTHER -> ErrUnknown

\* error callback of getCurrentPosition
positionError(d, code) ==
    /\ d \in 1..Len(detections)
    /\ detections[d].phase = "position"
    /\ locationError' = PositionErrorMessage(code)
    /\ isLocating' = FALSE
    /\ detections' = [detections EXCEPT ![d] = Detection("done", "positionError", NULL)]
    /\ last' = Ran("positionError", d, code)
    /\ UNCHANGED <<sightings, selectedRegion, selectedPrefecture, showAllPeriod,
                   detectedPrefecture, geolocation, mounted>>
    /\ UNCHANGED <<fvars, cvars>>

NextView ==
    \/ mountEffect
    \/ rerunEffect
    \/ clickDetect
    \/ \E region \in DOMAIN REGIONS \cup {"all"} : handleRegionChange(region)
    \/ \E pref \in SamplePrefectures \cup {"all"} : setSelectedPrefecture(pref)
    \/ togglePeriod
    \/ \E d \in 1..MaxDetections : positionSuccess(d)
    \/ \E d \in 1..MaxDetections, response \in GeocodeResponses : geocodeSettled(d, response)
    \/ \E d \in 1..MaxDetections, code \in PositionErrorCodes : positionError(d, code)

SpecView == InitView /\ [][NextView]_vars

\* the platform invokes one of the two position callbacks of every started
\* detection, and every geocoder request settles
SpecViewFair ==
    /\ SpecView
    /\ \A d \in 1..MaxDetections :
           /\ WF_vars(positionSuccess(d)
                          \/ \E code \in PositionErrorCodes : positionError(d, code))
           /\ WF_vars(\E response \in GeocodeResponses : geocodeSettled(d, response))

(***************************************************************************)
(* SightingsView on a device without geolocation: the filter pipeline over  *)
(* dated collections                                                       *)
(***************************************************************************)
\* at most MaxRecords records in the enumerated collections
MaxRecords == 3

\* two prefectures of one region, one of another, one outside the taxonomy
FilterPrefectures == {"Akita", "Aomori", "Tokyo", "Karafuto"}

\* a date inside the six months before DefaultNow and a date before them
RecentDate == <<2025, 10, 1>>
OldDate == <<2025, 4, 14>>

DatedSighting(i, date, p) == [id |-> i, date |-> date, prefecture |-> p]

\* collections of n records whose first k are recent and the rest old, so that
\* the dates descend as the store returns them
DatedCollections(n) ==
    {[i \in 1..n |-> DatedSighting(i, IF i <= k THEN RecentDate ELSE OldDate, f[i])] :
        k \in 0..n, f \in [1..n -> FilterPrefectures]}

\* collections longer than the recent list: Akita and Tokyo in turn with one
\* record outside the taxonomy, or Akita only; the last three records are old
LongCollections ==
    LET n == RecentCount + 4
        Date(i) == IF i <= n - 3 THEN RecentDate ELSE OldDate
    IN  {[i \in 1..n |-> DatedSighting(i, Date(i),
                            IF i = 2 THEN "Karafuto" ELSE IF i % 2 = 0 THEN "Tokyo" ELSE "Akita")],
         [i \in 1..n |-> DatedSighting(i, Date(i), "Akita")]}

FilterCollections == UNION {DatedCollections(n) : n \in 0..MaxRecords} \cup LongCollections

InitFilter ==
    /\ sightings \in FilterCollections
    /\ geolocation = FALSE
    /\ selectedRegion = "all"
    /\ selectedPrefecture = "all"
    /\ showAllPeriod = FALSE
    /\ isLocating = FALSE
    /\ locationError = NULL
    /\ detectedPrefecture = NULL
    /\ mounted = FALSE
    /\ detections = <<>>
    /\ last = [op |-> "none", id |-> 0, arg |-> NULL, pre |-> Visible]
    /\ now = DefaultNow
    /\ sixMonthsAgo = getSixMonthsAgo(now)
    /\ store = <<>>
    /\ allData = <<>>
    /\ page = 0
    /\ hasMore = FALSE
    /\ pc = "done"
    /\ requests = <<>>
    /\ errorAt = 0
    /\ result = <<>>

NextFilter ==
    \/ mountEffect
    \/ \E region \in DOMAIN REGIONS \cup {"all"} : handleRegionChange(region)
    \/ \E pref \in FilterPrefectures \cup {"all"} : setSelectedPrefecture(pref)
    \/ togglePeriod

SpecFilter == InitFilter /\ [][NextFilter]_vars

(***************************************************************************)
(* SightingsView around the boundary of the recent window: any clock, and  *)
(* a collection of two records dated one day after and one day before the  *)
(* day six calendar months before the clock's day                          *)
(***************************************************************************)
SampleYears == {2024, 2025}
SampleHours == {0, 12, 23}

\* zone offsets in hours: US Pacific, UTC, Japan
SampleZones == {-8, 0, 9}

SampleNows ==
    {Clock(y, m, d, h, tz) :
        y \in SampleYears, m \in 0..11, d \in 1..31, h \in SampleHours, tz \in SampleZones}

\* the local day six calendar months before the clock's day: the same day of
\* the month six months earlier, running over into the next month when that
\* month is shorter
SixMonthsBeforeDay(clock) ==
    LET y == IF clock.month >= 6 THEN clock.year ELSE clock.year - 1
        m == IF clock.month >= 6 THEN clock.month - 6 ELSE clock.month + 6
    IN  DateParse(<<y, m + 1, 1>>) \div HoursPerDay + clock.date - 1

BoundaryCollection(clock) ==
    <<DatedSighting(1, DateString(SixMonthsBeforeDay(clock) + 1), "Akita"),
      DatedSighting(2, DateString(SixMonthsBeforeDay(clock) - 1), "Akita")>>

InitDate ==
    /\ now \in SampleNows
    /\ now.date <= DaysInMonth(now.year, now.month)
    /\ sixMonthsAgo = getSixMonthsAgo(now)
    /\ sightings = BoundaryCollection(now)
    /\ geolocation = FALSE
    /\ selectedRegion = "all"
    /\ selectedPrefecture = "all"
    /\ showAllPeriod = FALSE
    /\ isLocating = FALSE
    /\ locationError = NULL
    /\ detectedPrefecture = NULL
    /\ mounted = FALSE
    /\ detections = <<>>
    /\ last = [op |-> "none", id |-> 0, arg |-> NULL, pre |-> Visible]
    /\ store = <<>>
    /\ allData = <<>>
    /\ page = 0
    /\ hasMore = FALSE
    /\ pc = "done"
    /\ requests = <<>>
    /\ errorAt = 0
    /\ result = <<>>

NextDate ==
    \/ mountEffect
    \/ togglePeriod

SpecDate == InitDate /\ [][NextDate]_vars

(***************************************************************************)
(* Claims on getSightings                                                  *)
(***************************************************************************)

\* C1: with no error reported, getSightings returns every store row exactly
\* once, in store order (date descending), so exactly N records.
C1_PaginationComplete ==
    (pc = "done" /\ errorAt = 0) =>
        /\ Len(result) = Len(store)
        /\ result = MapRows(store)
        /\ \A i \in 1..Len(result) : result[i].id = i
        /\ \A i \in 1..(Len(result) - 1) : result[i].date >= result[i + 1].date

C1_Witness ==
    /\ pc = "done"
    /\ errorAt = 0
    /\ Len(store) = 3 * pageSize + 17
    /\ Len(result) = 3 * pageSize + 17

\* C2: when request k reports an error after k-1 full pages, getSightings
\* still returns, with exactly the rows of pages 1..k-1 in order, and no
\* request follows the failed one.
C2_PartialFailure ==
    (pc = "done" /\ errorAt > 0) =>
        /\ result = MapRows(SubSeq(store, 1, (errorAt - 1) * pageSize))
        /\ Len(requests) = errorAt

C2_Witness ==
    /\ pc = "done"
    /\ errorAt = 3
    /\ Len(result) = 2 * pageSize

\* C3: the i-th request (from 0) is [i*pageSize, i*pageSize + pageSize - 1];
\* ranges increase strictly, leave no gap, do not overlap and never repeat.
C3_RangeSequence ==
    /\ \A i \in 1..Len(requests) :
           requests[i] = <<(i - 1) * pageSize, (i - 1) * pageSize + pageSize - 1>>
    /\ \A i \in 1..(Len(requests) - 1) :
           /\ requests[i + 1][1] = requests[i][2] + 1
           /\ requests[i][1] < requests[i + 1][1]
    /\ \A i, j \in 1..Len(requests) : i # j => requests[i] # requests[j]

C3_Witness ==
    /\ Len(requests) = 4
    /\ requests[1] = <<0, 999>>
    /\ requests[2] = <<1000, 1999>>
    /\ requests[4] = <<3000, 3999>>

(***************************************************************************)
(* Claims on SightingsView                                                 *)
(***************************************************************************)
DetectOps == {"mountEffect", "rerunEffect", "clickDetect"}

\* the detection whose callback ran last resolved to a prefecture
LastResolved ==
    /\ last.op = "geocodeSettled"
    /\ detections[last.id].pref # NULL

\* C4: a selected prefecture always belongs to the selected region, when
\* neither is 'all'.
C4_FilterConsistent ==
    (selectedPrefecture # "all" /\ selectedRegion # "all") =>
        Includes(RegionPrefs(selectedRegion), selectedPrefecture)

\* C5: after handleRegionChange the prefecture is 'all' and the period mode is
\* the one before the click.
C5_RegionReset ==
    last.op = "handleRegionChange" =>
        /\ selectedPrefecture = "all"
        /\ showAllPeriod = last.pre.allPeriod

C5_Witness ==
    /\ last.op = "handleRegionChange"
    /\ last.pre.prefecture # "all"
    /\ last.pre.region # last.arg
    /\ last.arg # "all"
    /\ selectedRegion = last.arg
    /\ selectedPrefecture = "all"
    /\ showAllPeriod

\* C6: a detection that completes after a later one was started applies
\* nothing, and once all detections are complete the prefecture shown is the
\* one the latest detection resolved.
C6_LatestAuthoritative ==
    /\ (last.op \in {"geocodeSettled", "positionError"} /\ last.id < Len(detections)) =>
           /\ selectedRegion = last.pre.region
           /\ selectedPrefecture = last.pre.prefecture
           /\ detectedPrefecture = last.pre.detected
           /\ locationError = last.pre.error
    /\ (/\ last.op \in {"geocodeSettled", "positionError"}
        /\ \A d \in 1..Len(detections) : detections[d].phase = "done"
        /\ detections[Len(detections)].pref # NULL) =>
           detectedPrefecture = detections[Len(detections)].pref

\* C7: a detection that resolves to a prefecture without sightings ends with
\* that prefecture's region selected, prefecture 'all' and no error.
C7_NoDataPath ==
    (LastResolved /\ ~HasSighting(sightings, detections[last.id].pref)) =>
        /\ selectedRegion \in DOMAIN REGIONS
        /\ Includes(REGIONS[selectedRegion], detections[last.id].pref)
        /\ selectedPrefecture = "all"
        /\ locationError = NULL

\* C8: a detection that resolves to a prefecture P with sightings ends with
\* detectedPrefecture = P, selectedPrefecture = P and the region of P selected.
C8_DetectionWithData ==
    (LastResolved /\ HasSighting(sightings, detections[last.id].pref)) =>
        /\ detectedPrefecture = detections[last.id].pref
        /\ selectedPrefecture = detections[last.id].pref
        /\ selectedRegion \in DOMAIN REGIONS
        /\ Includes(REGIONS[selectedRegion], detections[last.id].pref)

C8_Witness ==
    /\ LastResolved
    /\ detections[last.id].pref = "Akita"
    /\ HasSighting(sightings, "Akita")
    /\ last.pre.region = "Kanto"
    /\ last.pre.prefecture = "Tokyo"
    /\ selectedRegion = "Tohoku"
    /\ selectedPrefecture = "Akita"

\* responses for which the geocoder has no prefecture: a thrown fetch, a body
\* without results, results without mupicode, a code outside the table, a
\* one-character code
UnresolvableResponses ==
    {GeocodeResponse(TRUE, FALSE, <<>>),
     GeocodeResponse(FALSE, FALSE, <<>>),
     GeocodeResponse(FALSE, TRUE, <<>>),
     GeocodeResponse(FALSE, TRUE, <<"9", "9", "0", "0", "0">>),
     GeocodeResponse(FALSE, TRUE, <<"4">>)}

\* the handler that ran last ended a detection in failure
LastFailed ==
    \/ last.op \in DetectOps /\ ~geolocation
    \/ last.op = "positionError"
    \/ last.op = "geocodeSettled" /\ last.arg \in UnresolvableResponses

\* C9: every failure of a detection sets locationError and leaves the region,
\* the prefecture and the period mode as they were.
C9_FailureLeavesFilter ==
    LastFailed =>
        /\ locationError # NULL
        /\ selectedRegion = last.pre.region
        /\ selectedPrefecture = last.pre.prefecture
        /\ showAllPeriod = last.pre.allPeriod

C9_Witness ==
    /\ last.op = "geocodeSettled"
    /\ last.arg = GeocodeResponse(FALSE, TRUE, <<"9", "9", "0", "0", "0">>)
    /\ locationError = ErrUnresolved
    /\ selectedRegion = "Tohoku"
    /\ selectedPrefecture = "Akita"
    /\ showAllPeriod
    /\ detections[last.id].phase = "done"

\* C10: detectedPrefecture and locationError are never both set.
C10_ReplacedPerAttempt ==
    ~(detectedPrefecture # NULL /\ locationError # NULL)

(***************************************************************************)
(* Claims on the filter pipeline and the taxonomy                          *)
(***************************************************************************)
SeqToSet(seq) == {seq[i] : i \in 1..Len(seq)}

\* the 47 names of the geocoder's table
CanonicalPrefectures == SeqToSet(PrefectureTable)

\* the indices of the records of the collection whose prefecture is in a set
IndicesIn(prefs) == {i \in 1..Len(sightings) : sightings[i].prefecture \in prefs}

\* the records of the collection at a set of indices, in collection order
RecordsAt(indices) ==
    [k \in 1..Cardinality(indices) |->
        sightings[CHOOSE i \in indices : Cardinality({j \in indices : j < i}) = k - 1]]

\* C11: with a region selected, prefecture 'all' and all-period mode the
\* filtered list is the records of that region's prefectures (the six of
\* Tohoku for Tohoku); regionCounts and prefectureCounts are the counts over
\* the whole collection in every filter state.
C11_FilterComposition ==
    /\ (selectedRegion \in DOMAIN REGIONS /\ selectedPrefecture = "all" /\ showAllPeriod) =>
           /\ filteredSightings = RecordsAt(IndicesIn(SeqToSet(REGIONS[selectedRegion])))
           /\ regionCounts(sightings)[selectedRegion] = Len(filteredSightings)
    /\ (selectedRegion = "Tohoku" /\ selectedPrefecture = "all" /\ showAllPeriod) =>
           filteredSightings =
               RecordsAt(IndicesIn({"Aomori", "Iwate", "Miyagi", "Akita", "Yamagata",
                                    "Fukushima"}))
    /\ \A r \in DOMAIN REGIONS :
           regionCounts(sightings)[r] = Cardinality(IndicesIn(SeqToSet(REGIONS[r])))
    /\ \A p \in DOMAIN prefectureCounts(sightings) :
           prefectureCounts(sightings)[p] = Cardinality(IndicesIn({p}))

C11_Witness ==
    /\ selectedRegion = "Tohoku"
    /\ selectedPrefecture = "all"
    /\ showAllPeriod
    /\ Len(filteredSightings) = 2
    /\ Len(sightings) = 3
    /\ filteredSightings[1].prefecture # filteredSightings[2].prefecture
    /\ filteredSightings[2].date = OldDate

\* C12: REGIONS has 8 regions, pairwise disjoint, whose union is the 47
\* canonical names; getRegionFromPrefecture gives the one region listing a
\* canonical name and null for any other name.
C12_TaxonomyTotality ==
    /\ Len(RegionNames) = 8
    /\ Cardinality(DOMAIN REGIONS) = 8
    /\ \A r1, r2 \in DOMAIN REGIONS :
           r1 # r2 => SeqToSet(REGIONS[r1]) \cap SeqToSet(REGIONS[r2]) = {}
    /\ \A r \in DOMAIN REGIONS : Cardinality(SeqToSet(REGIONS[r])) = Len(REGIONS[r])
    /\ UNION {SeqToSet(REGIONS[r]) : r \in DOMAIN REGIONS} = CanonicalPrefectures
    /\ Cardinality(CanonicalPrefectures) = 47
    /\ \A p \in CanonicalPrefectures :
           /\ getRegionFromPrefecture(p) \in DOMAIN REGIONS
           /\ p \in SeqToSet(REGIONS[getRegionFromPrefecture(p)])
    /\ \A i \in 1..Len(sightings) :
           sightings[i].prefecture \notin CanonicalPrefectures =>
               getRegionFromPrefecture(sightings[i].prefecture) = NULL

C12_Witness ==
    /\ mounted
    /\ \E i, j \in 1..Len(sightings) :
           /\ sightings[i].prefecture = "Karafuto"
           /\ getRegionFromPrefecture(sightings[i].prefecture) = NULL
           /\ sightings[j].prefecture = "Tokyo"
           /\ getRegionFromPrefecture(sightings[j].prefecture) = "Kanto"

\* C13: in RECENT mode, for every clock, the record dated one day after the
\* day six calendar months before now is kept and the record dated one day
\* before it is dropped.
C13_RecentWindowBoundary ==
    (mounted /\ ~showAllPeriod /\ Len(sightings) = 2
        /\ sightings = BoundaryCollection(now)) =>
        /\ \E k \in 1..Len(filteredSightings) : filteredSightings[k].id = 1
        /\ \A k \in 1..Len(filteredSightings) : filteredSightings[k].id # 2

\* records whose prefecture no region lists
Unclassifiable ==
    {i \in 1..Len(sightings) :
        \A r \in DOMAIN REGIONS : sightings[i].prefecture \notin SeqToSet(REGIONS[r])}

InFiltered(i) == \E k \in 1..Len(filteredSightings) : filteredSightings[k] = sightings[i]

RECURSIVE SumRegionCounts(_)
SumRegionCounts(n) ==
    IF n = 0 THEN 0 ELSE SumRegionCounts(n - 1) + regionCounts(sightings)[RegionNames[n]]

\* C14: a record with a prefecture outside REGIONS is counted by no region
\* and dropped by every region filter, and is shown when region and
\* prefecture are 'all' (if the period filter keeps it); the region counts
\* add up to the collection size minus the number of such records.
C14_Unclassifiable ==
    /\ SumRegionCounts(Len(RegionNames)) = Len(sightings) - Cardinality(Unclassifiable)
    /\ \A i \in Unclassifiable :
           /\ selectedRegion # "all" => ~InFiltered(i)
           /\ (selectedRegion = "all" /\ selectedPrefecture = "all") =>
                  (InFiltered(i) <=>
                      (showAllPeriod \/ DateParse(sightings[i].date) >= sixMonthsAgo))

C14_Witness ==
    /\ selectedRegion = "all"
    /\ selectedPrefecture = "all"
    /\ last.op = "handleRegionChange"
    /\ last.pre.region = "Tohoku"
    /\ Len(sightings) = 3
    /\ Cardinality(Unclassifiable) = 1
    /\ \E i \in Unclassifiable : InFiltered(i)
    /\ SumRegionCounts(Len(RegionNames)) = 2

\* C15 as stated: prefectureCounts, and the list offered for the selected
\* region, hold every canonical prefecture, with 0 for one without sightings.
C15_ZeroCountPrefecturesAppear ==
    /\ \A p \in CanonicalPrefectures :
           /\ p \in DOMAIN prefectureCounts(sightings)
           /\ prefectureCounts(sightings)[p] = Cardinality(IndicesIn({p}))
    /\ selectedRegion \in DOMAIN REGIONS =>
           SeqToSet(prefectures(sightings, selectedRegion)) = SeqToSet(REGIONS[selectedRegion])

\* C15 amended: prefectureCounts holds exactly the prefectures that occur in
\* the collection, each with its count (at least 1), and the offered list is
\* the occurring prefectures of the selected region (all of them for 'all'),
\* each once; a prefecture without sightings appears in neither.
C15_OnlyOccurringPrefectures ==
    LET occurring == {sightings[i].prefecture : i \in 1..Len(sightings)}
        offered == prefectures(sightings, selectedRegion)
    IN  /\ DOMAIN prefectureCounts(sightings) = occurring
        /\ \A p \in occurring :
               /\ prefectureCounts(sightings)[p] = Cardinality(IndicesIn({p}))
               /\ prefectureCounts(sightings)[p] >= 1
        /\ SeqToSet(offered) =
               IF selectedRegion = "all"
               THEN occurring
               ELSE occurring \cap SeqToSet(RegionPrefs(selectedRegion))
        /\ Cardinality(SeqToSet(offered)) = Len(offered)

C15_Witness ==
    /\ selectedRegion = "Tohoku"
    /\ prefectures(sightings, selectedRegion) = <<"Akita">>
    /\ "Aomori" \notin DOMAIN prefectureCounts(sightings)
    /\ DOMAIN prefectureCounts(sightings) = {"Akita", "Tokyo"}

\* C16: the region buttons are the 8 regions in the order of REGIONS, each
\* with its count, 0 and disabled for a region without sightings; an empty
\* collection gives an empty filtered list and eight zero counts.
C16_ZeroCountRegions ==
    /\ DOMAIN regionCounts(sightings) = DOMAIN REGIONS
    /\ [i \in 1..Len(regionButtons) |-> regionButtons[i].region] =
           <<"Hokkaido", "Tohoku", "Kanto", "Chubu", "Kansai", "Chugoku", "Shikoku",
             "KyushuOkinawa">>
    /\ \A i \in 1..Len(regionButtons) :
           /\ regionButtons[i].count = Cardinality(IndicesIn(SeqToSet(REGIONS[regionButtons[i].region])))
           /\ regionButtons[i].disabled <=> regionButtons[i].count = 0
    /\ sightings = <<>> =>
           /\ filteredSightings = <<>>
           /\ \A r \in DOMAIN REGIONS : regionCounts(sightings)[r] = 0

C16_Witness ==
    /\ sightings = <<>>
    /\ last.op = "togglePeriod"
    /\ showAllPeriod
    /\ filteredSightings = <<>>
    /\ Len(regionButtons) = 8
    /\ \A i \in 1..Len(regionButtons) : regionButtons[i].disabled

\* the records that satisfy every active predicate
Satisfying ==
    {i \in 1..Len(sightings) :
        /\ showAllPeriod \/ DateParse(sightings[i].date) >= sixMonthsAgo
        /\ selectedRegion = "all"
               \/ sightings[i].prefecture \in SeqToSet(RegionPrefs(selectedRegion))
        /\ selectedPrefecture = "all" \/ sightings[i].prefecture = selectedPrefecture}

\* C17: the filtered list is the records satisfying every active predicate,
\* in collection order and each once, and the recent list is its first
\* min(10, length) records.
C17_OrderPreserved ==
    /\ filteredSightings = RecordsAt(Satisfying)
    /\ Len(recentSightings) = Min(10, Len(filteredSightings))
    /\ \A k \in 1..Len(recentSightings) : recentSightings[k] = filteredSightings[k]

C17_Witness ==
    /\ selectedRegion = "Tohoku"
    /\ selectedPrefecture = "Akita"
    /\ ~showAllPeriod
    /\ Len(sightings) = 14
    /\ Len(filteredSightings) = 11
    /\ Len(recentSightings) = 10
    /\ recentSightings[10].id = 10

(***************************************************************************)
(* Claims on the termination of getSightings                               *)
(***************************************************************************)
\* the rows request i of this run gets back
PageOf(i) == StoreRange(store, requests[i][1], requests[i][2])

\* what holds of a run that has returned
ReturnedRight ==
    pc = "done" =>
        /\ errorAt = 0 =>
               /\ Len(requests) = Len(store) \div pageSize + 1
               /\ \A i \in 1..(Len(requests) - 1) : Len(PageOf(i)) = pageSize
               /\ Len(PageOf(Len(requests))) < pageSize
        /\ errorAt > 0 =>
               /\ Len(requests) = errorAt
               /\ \A i \in 1..(errorAt - 1) : Len(PageOf(i)) = pageSize
        /\ (errorAt = 0 /\ Len(store) = 0) =>
               /\ Len(requests) = 1
               /\ result = <<>>

\* C18: getSightings terminates for every finite store: it stops after the
\* first short (or empty) page or the first error, so without an error it
\* issues floor(N / pageSize) + 1 requests, and an empty first page ends it
\* with an empty result.
C18_Terminates ==
    /\ []ReturnedRight
    /\ <>(pc = "done")
    /\ [](pc = "done" => [](pc = "done"))

C18_Witness ==
    /\ pc = "done"
    /\ errorAt = 0
    /\ Len(store) = 2 * pageSize
    /\ Len(requests) = 3
    /\ Len(PageOf(3)) = 0
    /\ Len(result) = 2 * pageSize

(***************************************************************************)
(* Claims on the detection lifecycle                                       *)
(***************************************************************************)
Started(d) == d <= Len(detections)

Completed(d) == Started(d) /\ detections[d].phase = "done"

\* the handler that ran last completed a detection: RESOLVED leaves the
\* resolved prefecture and no error, FAILED leaves an error
TerminalStateRight ==
    (last.id > 0 /\ Completed(last.id) /\ last.op \notin {"none", "positionSuccess"}) =>
        IF detections[last.id].outcome \in {"resolved", "nodata"}
        THEN /\ detectedPrefecture = detections[last.id].pref
             /\ locationError = NULL
        ELSE locationError # NULL

\* C19: every detection on a device with geolocation goes from LOCATING to
\* RESOLVED (detectedPrefecture set, no error) or FAILED (locationError set);
\* every started detection eventually completes, isLocating eventually
\* becomes false, and the detect button works again once it has.
C19_DetectionLifecycle ==
    /\ []TerminalStateRight
    /\ \A d \in 1..MaxDetections : Started(d) ~> Completed(d)
    /\ isLocating ~> ~isLocating
    /\ [](/\ mounted
          /\ Len(detections) < MaxDetections
          /\ \A d \in 1..Len(detections) : Completed(d)
          => ENABLED clickDetect)

\* C20: isLocating is true exactly when some started detection has not
\* completed.
C20_IsLocatingTracksInFlight ==
    isLocating <=> \E d \in 1..Len(detections) : ~Completed(d)

====
